---------------------------- MODULE Spec2Model ----------------------------
(***************************************************************************)
(* The gozix viper bundle: functional options applied to a viper           *)
(* configuration object at construction, and the deferred resolution that  *)
(* reads "app.path" and the "config" flag and calls ReadInConfig.          *)
(*                                                                         *)
(* Four versions of the adapter are in the repository:                     *)
(*   "v1"    src/viper.go            registry lookup, no flag              *)
(*   "v1cli" src/unnamed/part_000    registry lookup, cobra flag           *)
(*   "v2"    src/unnamed/part_001    context lookup, cobra flag            *)
(*   "v3"    src/unnamed/part_001    provideViper / provideFlagSet         *)
(* The calls into spf13/viper and spf13/pflag are modelled by what those   *)
(* libraries do at the call sites.                                         *)
(***************************************************************************)
EXTENDS Naturals, Sequences, FiniteSets, TLC

VARIABLES version, pc, viper, ctor, options, args, flagSet, flagErr, res

vars == <<version, pc, viper, ctor, options, args, flagSet, flagErr, res>>

(***************************************************************************)
(* Bounds                                                                  *)
(***************************************************************************)
\* longest option sequence given to a constructor in SpecOptions
MaxOpts == 2
\* longest option sequence given to a constructor in Spec (the resolution pipeline)
MaxResolveOpts == 2
\* most process arguments after the program name in SpecFlags
MaxArgs == 3

Versions == {"v1", "v1cli", "v2", "v3"}

(***************************************************************************)
(* Paths and files                                                         *)
(***************************************************************************)
\* the process working directory, against which relative paths are resolved
Cwd == "/work"

\* filepath.IsAbs on the paths of the model
IsAbs(p) == p \in {"/app", "/app/", "/etc", "/work", "/work/conf"}

\* filepath.Clean on the paths of the model: a trailing separator is dropped
Clean(p) == IF p = "/app/" THEN "/app" ELSE p

\* viper's absPathify, as called by AddConfigPath
absPathify(inPath) ==
    IF IsAbs(inPath) THEN Clean(inPath) ELSE Clean(Cwd \o "/" \o inPath)

\* Join with the separator forgotten
JoinNoSeparator(dir, name) == dir \o name

\* filepath.Join of a clean directory and a file name
Join(dir, name) == dir \o "/" \o name

\* viper.SupportedExts, in the order searchInPath tries them
SupportedExts ==
    <<"json", "toml", "yaml", "yml", "properties", "props", "prop",
      "hcl", "tfvars", "dotenv", "env", "ini">>

ExtSet == {SupportedExts[i] : i \in 1..Len(SupportedExts)}

\* the files a file system of the model may hold, and the contents each may have
Files == {"/app/config.json", "/app/config.yaml", "/etc/alt.json"}

FileSystems ==
    { [f \in Files |-> CASE f = "/app/config.json" -> a
                         [] f = "/app/config.yaml" -> b
                         [] OTHER -> c] :
        a \in {"none", "json", "garbage"}, b \in {"none", "yaml"}, c \in {"json"} }

\* viper's exists(): the file is there
Exists(fs, f) == f \in DOMAIN fs /\ fs[f] # "none"

\* the file names (without extension) whose extension filepath.Ext can be asked for
Stems == {"/app/config", "/etc/alt", "/missing"}

\* filepath.Ext without the dot; "" when the name has no extension
Ext(f) ==
    IF \E s \in Stems, e \in ExtSet : f = s \o "." \o e
    THEN CHOOSE e \in ExtSet : \E s \in Stems : f = s \o "." \o e
    ELSE ""

\* whether viper's decoder for configType accepts the content (JSON is YAML too)
Parses(content, configType) ==
    \/ content = "json" /\ configType \in {"json", "yaml", "yml"}
    \/ content = "yaml" /\ configType \in {"yaml", "yml"}

(***************************************************************************)
(* The viper configuration object (the settings the bundle touches)        *)
(***************************************************************************)
NoReplacer == [old |-> "", new |-> ""]

\* viper.New()
ViperNew ==
    [ automaticEnvApplied |-> FALSE,
      envPrefix           |-> "",
      envKeyReplacer      |-> NoReplacer,
      configFile          |-> "",
      configName          |-> "config",
      configPaths         |-> <<>>,
      configType          |-> "",
      config              |-> "" ]

\* viper.AutomaticEnv
SetAutomaticEnv(v) == [v EXCEPT !.automaticEnvApplied = TRUE]

\* viper.SetEnvPrefix: an empty prefix is ignored
SetEnvPrefix(v, in) == IF in # "" THEN [v EXCEPT !.envPrefix = in] ELSE v

\* viper.SetEnvKeyReplacer
SetEnvKeyReplacer(v, r) == [v EXCEPT !.envKeyReplacer = r]

\* SetConfigFile that keeps an explicit file already set
SetConfigFileKeepFirst(v, in) ==
    IF in # "" /\ v.configFile = "" THEN [v EXCEPT !.configFile = in] ELSE v

\* viper.SetConfigFile: an empty name is ignored
SetConfigFile(v, in) == IF in # "" THEN [v EXCEPT !.configFile = in] ELSE v

\* viper.SetConfigName: an empty name is ignored; a name clears the explicit file
SetConfigName(v, in) ==
    IF in # "" THEN [v EXCEPT !.configName = in, !.configFile = ""] ELSE v

InSeq(x, s) == \E i \in 1..Len(s) : s[i] = x

\* AddConfigPath that appends a path already in the list
AddConfigPathNoDedup(v, in) ==
    IF in # "" THEN [v EXCEPT !.configPaths = Append(@, absPathify(in))] ELSE v

\* AddConfigPath that puts the new path first
AddConfigPathPrepend(v, in) ==
    IF in # "" /\ ~InSeq(absPathify(in), v.configPaths)
    THEN [v EXCEPT !.configPaths = <<absPathify(in)>> \o @]
    ELSE v

\* viper.AddConfigPath: the absolute path is appended unless empty or already there
AddConfigPath(v, in) ==
    IF in # "" /\ ~InSeq(absPathify(in), v.configPaths)
    THEN [v EXCEPT !.configPaths = Append(@, absPathify(in))]
    ELSE v

\* viper.SetConfigType: an empty type is ignored
SetConfigType(v, in) == IF in # "" THEN [v EXCEPT !.configType = in] ELSE v

(***************************************************************************)
(* Options                                                                 *)
(***************************************************************************)
AutomaticEnv == [op |-> "AutomaticEnv", value |-> "", to |-> ""]

EnvPrefix(value) == [op |-> "EnvPrefix", value |-> value, to |-> ""]

\* value is strings.NewReplacer(old, new); the nil replacer is ("", "")
EnvKeyReplacer(old, new) == [op |-> "EnvKeyReplacer", value |-> old, to |-> new]

ConfigFile(value) == [op |-> "ConfigFile", value |-> value, to |-> ""]

ConfigName(value) == [op |-> "ConfigName", value |-> value, to |-> ""]

ConfigPath(value) == [op |-> "ConfigPath", value |-> value, to |-> ""]

ConfigType(value) == [op |-> "ConfigType", value |-> value, to |-> ""]

\* optionFunc.apply: run the option's closure on the bundle's viper
apply(o, v) ==
    CASE o.op = "AutomaticEnv"   -> SetAutomaticEnv(v)
      [] o.op = "EnvPrefix"      -> SetEnvPrefix(v, o.value)
      [] o.op = "EnvKeyReplacer" -> SetEnvKeyReplacer(v, [old |-> o.value, new |-> o.to])
      [] o.op = "ConfigFile"     -> SetConfigFile(v, o.value)
      [] o.op = "ConfigName"     -> SetConfigName(v, o.value)
      [] o.op = "ConfigPath"     -> AddConfigPath(v, o.value)
      [] o.op = "ConfigType"     -> SetConfigType(v, o.value)

\* the options applied last to first
RECURSIVE ApplyOptionsReversed(_, _)
ApplyOptionsReversed(opts, v) ==
    IF opts = <<>> THEN v ELSE apply(Head(opts), ApplyOptionsReversed(Tail(opts), v))

\* the loop of NewBundleWithConfig: options applied in order
RECURSIVE ApplyOptions(_, _)
ApplyOptions(opts, v) ==
    IF opts = <<>> THEN v ELSE ApplyOptions(Tail(opts), apply(Head(opts), v))

\* the option list NewBundle starts from
DefaultOptions ==
    << AutomaticEnv,
       EnvPrefix("ENV"),
       EnvKeyReplacer(".", "_"),
       ConfigName("config"),
       ConfigType("json") >>

\* the caller's options put before the defaults
NewBundleOptsCallerFirst(opts) == opts \o DefaultOptions

\* NewBundle's opts = append(opts, options...)
NewBundleOpts(opts) == DefaultOptions \o opts

\* the option values the model draws from
AllOptions ==
    {AutomaticEnv}
    \cup {EnvPrefix(p) : p \in {"", "APP"}}
    \cup {EnvKeyReplacer("", ""), EnvKeyReplacer("-", "_")}
    \cup {ConfigFile(f) : f \in {"", "/app/config.yaml", "/missing.json"}}
    \cup {ConfigName(n) : n \in {"", "alt"}}
    \cup {ConfigPath(p) : p \in {"", "/etc", "/app/", "conf"}}
    \cup {ConfigType(t) : t \in {"", "yaml", "bogus"}}

\* the options that bear on resolution
ResolveOptions ==
    {ConfigFile(f) : f \in {"/app/config.yaml", "/missing.json"}}
    \cup {ConfigName("alt")}
    \cup {ConfigPath(p) : p \in {"", "/etc", "/app/"}}
    \cup {ConfigType(t) : t \in {"yaml", "bogus"}}

SeqsUpTo(S, n) == UNION {[1..k -> S] : k \in 0..n}


(***************************************************************************)
(* Errors: kind is the error (or the wrapping message), file the name the  *)
(* message prints, cause the kind of the error it wraps (%w), causeFile    *)
(* the name the wrapped error prints.                                      *)
(***************************************************************************)
Err(kind, file, cause, causeFile) ==
    [kind |-> kind, file |-> file, cause |-> cause, causeFile |-> causeFile]

NilErr == Err("nil", "", "", "")

\* errors.New("app.path is undefined")
ErrUndefinedAppPath == Err("app.path is undefined", "", "", "")

\* errors.New("cli.cmd is undefined")
ErrUndefinedCliCmd == Err("cli.cmd is undefined", "", "", "")

\* pflag.ErrHelp
ErrHelp == Err("pflag: help requested", "", "", "")

\* the wrapping message without the file name
WrapNoFile(msg, file, err) == Err(msg, "", err.kind, err.file)

\* fmt.Errorf(msg : '%s' : %w, file, err)
Wrap(msg, file, err) == Err(msg, file, err.kind, err.file)

(***************************************************************************)
(* The flag-set stage (pflag)                                              *)
(***************************************************************************)
Prog == "app"

\* a process argument: "--name", "--name=val", "-n", "-nval", "--" or a plain word
Tok(kind, name, hasval, val) ==
    [kind |-> kind, name |-> name, hasval |-> hasval, val |-> val]

Long(name) == Tok("long", name, FALSE, "")

LongEq(name, val) == Tok("long", name, TRUE, val)

Short(name) == Tok("short", name, FALSE, "")

Word(val) == Tok("word", "", FALSE, val)

DashDash == Tok("dashdash", "", FALSE, "")

\* the argument as the string the process was given
Text(t) ==
    CASE t.kind = "long"     -> "--" \o t.name \o (IF t.hasval THEN "=" \o t.val ELSE "")
      [] t.kind = "short"    -> "-" \o t.name \o t.val
      [] t.kind = "dashdash" -> "--"
      [] OTHER               -> t.val

Tokens ==
    { LongEq("config", "/etc/alt.json"), Long("config"), Short("c"),
      Word("/missing.json"), Long("help"), Short("h"), Long("bogus"), DashDash }

\* pflag.NewFlagSet(BundleName, ContinueOnError) with StringP("config", "c", "", ...)
NewFlagSet == [config |-> "", defined |-> TRUE, positional |-> <<>>]

\* FlagSet.parseArgs: left to right, stopping at the first error
RECURSIVE parseArgs(_, _)
parseArgs(fl, a) ==
    IF a = <<>> THEN [flagSet |-> fl, err |-> NilErr]
    ELSE LET s == Head(a)
             rest == Tail(a)
         IN  CASE s.kind = "word" ->
                    parseArgs([fl EXCEPT !.positional = Append(@, Text(s))], rest)
               [] s.kind = "dashdash" ->
                    [flagSet |-> [fl EXCEPT !.positional =
                                     @ \o [i \in 1..Len(rest) |-> Text(rest[i])]],
                     err |-> NilErr]
               [] s.kind = "long" /\ s.name # "config" ->
                    [flagSet |-> fl,
                     err |-> IF s.name = "help" THEN ErrHelp
                             ELSE Err("unknown flag", "--" \o s.name, "", "")]
               [] s.kind = "short" /\ s.name # "c" ->
                    [flagSet |-> fl,
                     err |-> IF s.name = "h" THEN ErrHelp
                             ELSE Err("unknown shorthand flag", "-" \o s.name, "", "")]
               [] OTHER ->
                    IF s.hasval THEN parseArgs([fl EXCEPT !.config = s.val], rest)
                    ELSE IF rest # <<>>
                         THEN parseArgs([fl EXCEPT !.config = Text(Head(rest))], Tail(rest))
                         ELSE [flagSet |-> fl,
                               err |-> Err("flag needs an argument", Text(s), "", "")]

\* errors.Is(err, pflag.ErrHelp)
IsErrHelp(err) == err = ErrHelp

\* a help request passed on as an error
FlagSetErrKeepHelp(err) == err

\* the error provideFlagSet returns for a parse error
FlagSetErr(err) == IF IsErrHelp(err) THEN NilErr ELSE err

\* FlagSet.GetString("config")
GetString(fl) ==
    IF fl.defined THEN [value |-> fl.config, err |-> NilErr]
    ELSE [value |-> "", err |-> Err("flag accessed but not defined", "config", "", "")]

(***************************************************************************)
(* viper.ReadInConfig                                                      *)
(***************************************************************************)
\* searchInPath: the first supported extension whose file exists in the directory,
\* then the bare name when a config type is set
searchInPath(v, fs, in) ==
    LET hits == {i \in 1..Len(SupportedExts) :
                    Exists(fs, Join(in, v.configName \o "." \o SupportedExts[i]))}
    IN  IF hits # {}
        THEN Join(in, v.configName \o "." \o
                      SupportedExts[CHOOSE i \in hits : \A j \in hits : i <= j])
        ELSE IF v.configType # "" /\ Exists(fs, Join(in, v.configName))
             THEN Join(in, v.configName)
             ELSE ""

\* findConfigFile: the search paths in order; "" when no path holds the file
findConfigFile(v, fs) ==
    LET hits == {i \in 1..Len(v.configPaths) : searchInPath(v, fs, v.configPaths[i]) # ""}
    IN  IF hits = {} THEN ""
        ELSE searchInPath(v, fs, v.configPaths[CHOOSE i \in hits : \A j \in hits : i <= j])

\* getConfigType: the explicit type, else the extension of the config file
getConfigType(v) == IF v.configType # "" THEN v.configType ELSE Ext(v.configFile)

\* ReadInConfig: the object afterwards, the error, and the file name it worked with
ReadInConfig(v, fs) ==
    LET found == IF v.configFile = "" THEN findConfigFile(v, fs) ELSE v.configFile
        v1 == [v EXCEPT !.configFile = found]
    IN  IF found = ""
        THEN [viper |-> v, attempted |-> "",
              err |-> Err("Config File Not Found", v.configName, "", "")]
        ELSE IF getConfigType(v1) \notin ExtSet
        THEN [viper |-> v1, attempted |-> found,
              err |-> Err("Unsupported Config Type", getConfigType(v1), "", "")]
        ELSE IF ~Exists(fs, found)
        THEN [viper |-> v1, attempted |-> found,
              err |-> Err("open: no such file or directory", found, "", "")]
        ELSE IF ~Parses(fs[found], getConfigType(v1))
        THEN [viper |-> v1, attempted |-> found,
              err |-> Err("While parsing config", "", "", "")]
        ELSE [viper |-> [v1 EXCEPT !.config = found], attempted |-> found,
              err |-> NilErr]

(***************************************************************************)
(* The ambient context / registry the resolution reads from                *)
(***************************************************************************)
\* a value stored under a key: absent, a non-string, or a string
NoValue == [t |-> "nil", v |-> ""]

IntValue == [t |-> "int", v |-> "42"]

Str(s) == [t |-> "string", v |-> s]

AppPaths == {NoValue, IntValue, Str(""), Str("/app")}

\* the value under "cli.cmd": absent, or a cobra command whose flags hold "config"
NoCmd == [t |-> "nil", defined |-> FALSE, config |-> ""]

Cmd(defined, config) == [t |-> "cmd", defined |-> defined, config |-> config]

Cmds == {NoCmd, Cmd(FALSE, "")} \cup {Cmd(TRUE, f) : f \in {"", "/missing.json"}}

\* has: the container holds the registry / context definition
Ambient(has, path, cmd) == [has |-> has, path |-> path, cmd |-> cmd]

\* what provideViper's ctx holds (v3 reads no "cli.cmd")
Contexts == {Ambient(TRUE, p, NoCmd) : p \in AppPaths}

\* what the v1 build closure's container holds
Registries == {Ambient(FALSE, NoValue, NoCmd)} \cup Contexts

\* what the v1cli and v2 build closures' container holds
CmdAmbients ==
    {Ambient(FALSE, NoValue, NoCmd)} \cup {Ambient(TRUE, p, c) : p \in AppPaths, c \in Cmds}

\* any value present taken for a string
IsAnyValue(x) == x.t # "nil"

\* ctx.Value("app.path").(string) / registry.Fill("app.path", &path)
IsString(x) == x.t = "string"

(***************************************************************************)
(* State                                                                   *)
(***************************************************************************)
NoFlagSet == [config |-> "", defined |-> FALSE, positional |-> <<>>]

\* the outcome of one resolution: what it was given, what it returned (obj: the
\* configuration object is returned, err), the object before it ran, the explicit
\* file in force when read-config was called, the file read-config worked with,
\* and how many times read-config was called
Outcome(op, amb, fs, before, obj, err, explicit, attempted, reads) ==
    [op |-> op, amb |-> amb, fs |-> fs, before |-> before, obj |-> obj, err |-> err,
     explicit |-> explicit, attempted |-> attempted, reads |-> reads]

NoFs == [f \in Files |-> "none"]

NoRes == Outcome("", Ambient(FALSE, NoValue, NoCmd), NoFs, ViperNew, FALSE, NilErr, "", "", 0)

\* the process arguments of the resolution pipeline
ResolveArgs ==
    { <<Word(Prog)>>,
      <<Word(Prog), LongEq("config", "/etc/alt.json")>>,
      <<Word(Prog), LongEq("config", "/app/config.yaml")>>,
      <<Word(Prog), Short("c"), Word("/missing.json")>>,
      <<Word(Prog), Long("help")>>,
      <<Word(Prog), Long("bogus")>> }

InitWith(versions, argset) ==
    /\ version \in versions
    /\ pc = "new"
    /\ viper = ViperNew
    /\ ctor = ""
    /\ options = <<>>
    /\ args \in (IF version = "v3" THEN argset ELSE {<<Word(Prog)>>})
    /\ flagSet = NoFlagSet
    /\ flagErr = NilErr
    /\ res = NoRes

Init == InitWith(Versions, ResolveArgs)

(***************************************************************************)
(* Construction                                                            *)
(***************************************************************************)
\* NewBundle(options...); the v1 versions take no options
NewBundle(opts) ==
    /\ pc = "new"
    /\ version \in {"v1", "v1cli"} => opts = <<>>
    /\ viper' = ApplyOptions(NewBundleOpts(opts), ViperNew)
    /\ ctor' = "NewBundle"
    /\ options' = opts
    /\ pc' = "built"
    /\ UNCHANGED <<version, args, flagSet, flagErr, res>>

NewBundleWithConfig(opts) ==
    /\ pc = "new"
    /\ viper' = ApplyOptions(opts, ViperNew)
    /\ ctor' = "NewBundleWithConfig"
    /\ options' = opts
    /\ pc' = "built"
    /\ UNCHANGED <<version, args, flagSet, flagErr, res>>

(***************************************************************************)
(* v3: the two providers                                                   *)
(***************************************************************************)
provideFlagSet ==
    /\ version = "v3"
    /\ pc = "built"
    /\ LET r == parseArgs(NewFlagSet, args)
       IN  /\ flagSet' = r.flagSet
           /\ flagErr' = FlagSetErr(r.err)
    /\ pc' = "flags"
    /\ UNCHANGED <<version, viper, ctor, options, args, res>>

\* what provideViper returns and leaves in b.viper
ProvideViperResult(v, ctx, fl, fs) ==
    IF ~IsString(ctx.path)
    THEN [viper |-> v,
          res |-> Outcome("provideViper", ctx, fs, v, FALSE, ErrUndefinedAppPath, "", "", 0)]
    ELSE LET v1 == AddConfigPath(v, ctx.path.v)
             g  == GetString(fl)
             configFile == g.value
             v2 == IF configFile # "" THEN SetConfigFile(v1, configFile) ELSE v1
             r  == ReadInConfig(v2, fs)
         IN  IF g.err # NilErr
             THEN [viper |-> v1,
                   res |-> Outcome("provideViper", ctx, fs, v, FALSE,
                              Wrap("unable to get config flag value", "", g.err), "", "", 0)]
             ELSE IF r.err # NilErr
             THEN [viper |-> r.viper,
                   res |-> Outcome("provideViper", ctx, fs, v, FALSE,
                              Wrap("unable to read config file", configFile, r.err),
                              v2.configFile, r.attempted, 1)]
             ELSE [viper |-> r.viper,
                   res |-> Outcome("provideViper", ctx, fs, v, TRUE, NilErr,
                              v2.configFile, r.attempted, 1)]

\* the container calls provideViper with the flag set provideFlagSet returned,
\* and not at all when provideFlagSet returned an error
provideViper(ctx, fs) ==
    /\ version = "v3"
    /\ pc = "flags"
    /\ flagErr = NilErr
    /\ LET r == ProvideViperResult(viper, ctx, flagSet, fs)
       IN  /\ viper' = r.viper
           /\ res' = r.res
    /\ pc' = "done"
    /\ UNCHANGED <<version, ctor, options, args, flagSet, flagErr>>

(***************************************************************************)
(* v1, v1cli, v2: the build closure registered under BundleName            *)
(***************************************************************************)
\* the closures end in "return b.viper, b.viper.ReadInConfig()": the object is
\* returned together with whatever error read-config gave, unwrapped
ReturnRead(op, amb, fs, before, v) ==
    LET r == ReadInConfig(v, fs)
    IN  [viper |-> r.viper,
         res |-> Outcome(op, amb, fs, before, TRUE, r.err, v.configFile, r.attempted, 1)]

\* an early "return nil, err" of a closure
ReturnErr(op, amb, fs, before, v, err) ==
    [viper |-> v, res |-> Outcome(op, amb, fs, before, FALSE, err, "", "", 0)]

\* cmd.Flags().GetString("config"), then SetConfigFile and ReadInConfig
ReadWithCmd(op, amb, fs, before, v1) ==
    LET g == GetString(amb.cmd)
    IN  IF g.err # NilErr THEN ReturnErr(op, amb, fs, before, v1, g.err)
        ELSE ReturnRead(op, amb, fs, before,
                        IF g.value # "" THEN SetConfigFile(v1, g.value) ELSE v1)

\* src/viper.go
BuildV1Result(v, amb, fs) ==
    IF ~amb.has
    THEN ReturnErr("Build.v1", amb, fs, v, v, Err("could not build registry", "", "", ""))
    ELSE IF ~IsString(amb.path)
    THEN ReturnErr("Build.v1", amb, fs, v, v, Err("registry fill", "app.path", "", ""))
    ELSE ReturnRead("Build.v1", amb, fs, v, AddConfigPath(v, amb.path.v))

\* src/unnamed/part_000
BuildV1CliResult(v, amb, fs) ==
    IF ~amb.has
    THEN ReturnErr("Build.v1cli", amb, fs, v, v, Err("could not build registry", "", "", ""))
    ELSE IF ~IsString(amb.path)
    THEN ReturnErr("Build.v1cli", amb, fs, v, v, Err("registry fill", "app.path", "", ""))
    ELSE IF amb.cmd.t # "cmd"
    THEN ReturnErr("Build.v1cli", amb, fs, v, AddConfigPath(v, amb.path.v),
                   Err("registry fill", "cli.cmd", "", ""))
    ELSE ReadWithCmd("Build.v1cli", amb, fs, v, AddConfigPath(v, amb.path.v))

\* src/unnamed/part_001, the v2 Build
BuildV2Result(v, amb, fs) ==
    IF ~amb.has
    THEN ReturnErr("Build.v2", amb, fs, v, v, Err("could not build context", "", "", ""))
    ELSE IF ~IsString(amb.path)
    THEN ReturnErr("Build.v2", amb, fs, v, v, ErrUndefinedAppPath)
    ELSE IF amb.cmd.t # "cmd"
    THEN ReturnErr("Build.v2", amb, fs, v, AddConfigPath(v, amb.path.v), ErrUndefinedCliCmd)
    ELSE ReadWithCmd("Build.v2", amb, fs, v, AddConfigPath(v, amb.path.v))

BuildResult(v, amb, fs) ==
    CASE version = "v1"    -> BuildV1Result(v, amb, fs)
      [] version = "v1cli" -> BuildV1CliResult(v, amb, fs)
      [] OTHER             -> BuildV2Result(v, amb, fs)

\* the container runs the closure once
Build(amb, fs) ==
    /\ version \in {"v1", "v1cli", "v2"}
    /\ pc = "built"
    /\ amb \in (IF version = "v1" THEN Registries ELSE CmdAmbients)
    /\ LET r == BuildResult(viper, amb, fs)
       IN  /\ viper' = r.viper
           /\ res' = r.res
    /\ pc' = "done"
    /\ UNCHANGED <<version, ctor, options, args, flagSet, flagErr>>

(***************************************************************************)
(* Specifications                                                          *)
(***************************************************************************)
\* the resolution pipeline, all four versions
Next ==
    \/ \E opts \in SeqsUpTo(ResolveOptions, MaxResolveOpts) : NewBundle(opts)
    \/ \E opts \in SeqsUpTo(ResolveOptions, MaxResolveOpts) : NewBundleWithConfig(opts)
    \/ provideFlagSet
    \/ \E ctx \in Contexts, fs \in FileSystems : provideViper(ctx, fs)
    \/ \E amb \in CmdAmbients, fs \in FileSystems : Build(amb, fs)

Spec == Init /\ [][Next]_vars

\* construction alone, over every option
InitOptions == InitWith({"v1", "v3"}, {<<Word(Prog)>>})

NextOptions ==
    \/ \E opts \in SeqsUpTo(AllOptions, MaxOpts) : NewBundle(opts)
    \/ \E opts \in SeqsUpTo(AllOptions, MaxOpts) : NewBundleWithConfig(opts)

SpecOptions == InitOptions /\ [][NextOptions]_vars

\* the flag-set stage alone, over every argument list
InitFlags ==
    InitWith({"v3"}, {<<Word(Prog)>> \o a : a \in SeqsUpTo(Tokens, MaxArgs)})

NextFlags ==
    \/ NewBundle(<<>>)
    \/ provideFlagSet

SpecFlags == InitFlags /\ [][NextFlags]_vars

(***************************************************************************)
(* Properties                                                              *)
(***************************************************************************)
\* a resolution by provideViper has returned
ProvideViperDone == pc = "done" /\ res.op = "provideViper"

\* the value of the "config" flag the resolution saw
FlagValue == IF res.op = "provideViper" THEN flagSet.config ELSE res.amb.cmd.config

\* C1: provideViper with a context holding no string under "app.path" returns
\* ErrUndefinedAppPath and no configuration object, whatever the flag value and
\* the options the bundle was constructed with.
C1_UndefinedAppPath ==
    (ProvideViperDone /\ res.amb.path.t # "string")
        => /\ res.err = [kind |-> "app.path is undefined", file |-> "",
                         cause |-> "", causeFile |-> ""]
           /\ ~res.obj

C1_Witness ==
    /\ ProvideViperDone
    /\ res.amb.path.t = "int"
    /\ flagSet.config # ""
    /\ options # <<>>
    /\ res.err.kind = "app.path is undefined"

\* the config type read-config decodes the file named f with: the type the options
\* set, and the extension of f only when they set none
EffectiveType(f) ==
    IF res.before.configType # "" THEN res.before.configType ELSE Ext(f)

\* the file is there and well-formed in the format its extension names
ValidFile(fs, f) ==
    /\ Exists(fs, f)
    /\ \/ fs[f] = "json" /\ Ext(f) = "json"
       \/ fs[f] = "yaml" /\ Ext(f) \in {"yaml", "yml"}

\* C2 as claimed: a non-empty flag value naming a valid file is read and loaded
\* whatever config name, search paths, config type and ConfigFile the options set;
\* with an empty flag value read-config is called with the explicit file the
\* options left.
C2_FlagFileReadRegardless ==
    (ProvideViperDone /\ res.reads = 1)
        => /\ (flagSet.config # "" /\ ValidFile(res.fs, flagSet.config))
                => (res.obj /\ res.err = NilErr /\ viper.config = flagSet.config)
           /\ flagSet.config = "" => res.explicit = res.before.configFile

\* C2 as the code has it: a non-empty flag value becomes the explicit config file
\* and is the only file read-config works with, whatever name, search paths or
\* earlier ConfigFile the options set; the config type set by options is not
\* overridden, so the file is loaded exactly when it exists and decodes under that
\* type (under its own extension when the options set no type), and otherwise
\* provideViper fails. With an empty flag value read-config is called with the
\* explicit file the options left, and afterwards the object's explicit file is
\* that file or, when the options left none, the file discovery found.
C2_FlagFileWins ==
    (ProvideViperDone /\ res.reads = 1)
        => /\ flagSet.config # ""
                => /\ res.explicit = flagSet.config
                   /\ res.attempted = flagSet.config
                   /\ viper.configFile = flagSet.config
                   /\ viper.configType = res.before.configType
                   /\ viper.configName = res.before.configName
                   /\ (res.obj /\ res.err = NilErr /\ viper.config = flagSet.config)
                        <=> (/\ Exists(res.fs, flagSet.config)
                             /\ Parses(res.fs[flagSet.config], EffectiveType(flagSet.config)))
                   /\ res.err # NilErr
                        => (~res.obj /\ viper.config = ""
                              /\ res.err.kind = "unable to read config file")
           /\ flagSet.config = ""
                => /\ res.explicit = res.before.configFile
                   /\ viper.configFile =
                         (IF res.before.configFile # "" THEN res.before.configFile
                          ELSE res.attempted)

\* a valid YAML file named by the flag, read under the type "json" NewBundle set
C2_Witness ==
    /\ ProvideViperDone
    /\ ctor = "NewBundle"
    /\ flagSet.config = "/app/config.yaml"
    /\ res.fs["/app/config.yaml"] = "yaml"
    /\ res.before.configType = "json"
    /\ res.before.configPaths # <<>>
    /\ res.attempted = "/app/config.yaml"
    /\ ~res.obj
    /\ res.err.cause = "While parsing config"

\* C4: a non-empty flag value naming a file that does not exist makes provideViper
\* fail with no configuration object and an error that prints the flag value and
\* wraps the error read-config gave.
C4_MissingFlagFile ==
    (ProvideViperDone /\ res.reads = 1 /\ flagSet.config # ""
        /\ (flagSet.config \notin DOMAIN res.fs \/ res.fs[flagSet.config] = "none"))
        => /\ ~res.obj
           /\ res.err.kind = "unable to read config file"
           /\ res.err.file = flagSet.config
           /\ res.err.cause \in {"open: no such file or directory", "Unsupported Config Type"}

C4_Witness ==
    /\ ProvideViperDone
    /\ flagSet.config = "/missing.json"
    /\ res.err.file = "/missing.json"
    /\ res.err.cause = "open: no such file or directory"

\* C7: default options, "app.path" a directory holding a well-formed config.json,
\* empty flag value: app.path is a search path, no explicit file is set, read-config
\* finds config.json there, and the object is returned with a nil error.
C7_DefaultDiscovery ==
    (ProvideViperDone /\ ctor = "NewBundle" /\ options = <<>>
        /\ res.amb.path = Str("/app") /\ res.fs["/app/config.json"] = "json"
        /\ flagSet.config = "")
        => /\ res.obj
           /\ res.err = NilErr
           /\ viper.configPaths = <<"/app">>
           /\ res.explicit = ""
           /\ res.attempted = "/app/config.json"
           /\ viper.config = "/app/config.json"

C7_Witness ==
    /\ ProvideViperDone /\ ctor = "NewBundle" /\ options = <<>>
    /\ res.amb.path = Str("/app") /\ res.fs["/app/config.json"] = "json"
    /\ res.fs["/app/config.yaml"] = "yaml"
    /\ flagSet.config = ""
    /\ res.obj

\* C9: whenever read-config fails in provideViper the wrapping error prints the
\* name of the file read-config worked with, however that file was chosen.
C9_WrapNamesAttemptedFile ==
    (ProvideViperDone /\ res.err.kind = "unable to read config file")
        => res.err.file = res.attempted

\* the case C9 fails in: the file came from the ConfigFile option, the flag is empty
C9_Witness ==
    /\ ProvideViperDone
    /\ res.err.kind = "unable to read config file"
    /\ flagSet.config = ""
    /\ res.attempted = "/app/config.yaml"
    /\ res.err.file = ""
    /\ res.err.causeFile = ""

\* the resolution got as far as reading "app.path" as a string
PathRead == res.amb.has /\ res.amb.path.t = "string"

\* the search paths after app.path p is added to paths
WithAppPath(paths, p) ==
    IF p = "" \/ InSeq(absPathify(p), paths) THEN paths ELSE Append(paths, absPathify(p))

\* the attempt succeeded: app.path is a search path, the flag's file is the
\* explicit file, read-config loaded a file, the object is returned
FullyInitialized ==
    /\ res.obj
    /\ res.err = NilErr
    /\ res.reads = 1
    /\ PathRead
    /\ viper.configPaths = WithAppPath(res.before.configPaths, res.amb.path.v)
    /\ FlagValue # "" => viper.configFile = FlagValue
    /\ viper.config # ""
    /\ viper.config = res.attempted

\* C3 as claimed, for provideViper: an error comes with no configuration object,
\* nothing is retried, and after any attempt the object is fully initialized or
\* as it was before the attempt.
C3_NoPartialState ==
    ProvideViperDone
        => /\ res.reads <= 1
           /\ res.err # NilErr => ~res.obj
           /\ FullyInitialized \/ (res.err # NilErr /\ viper = res.before)

\* the explicit config file a resolution leaves: unchanged when read-config was not
\* reached; else the flag value when non-empty, else the file the options set, else
\* the file discovery found on the search paths ("" when it found none)
FileAfter ==
    IF res.reads = 0 THEN res.before.configFile
    ELSE IF FlagValue # "" THEN FlagValue
    ELSE IF res.before.configFile # "" THEN res.before.configFile
    ELSE findConfigFile([res.before EXCEPT
                            !.configPaths = WithAppPath(@, res.amb.path.v)], res.fs)

\* the settings an attempt that read app.path leaves of the object it started from
AfterAttempt ==
    [res.before EXCEPT !.configPaths = WithAppPath(@, res.amb.path.v),
                       !.configFile = FileAfter]

\* C3 as the code has it: an error is returned and read-config is called at most
\* once; provideViper returns no object with an error, while the v1/v2 closures
\* return the object together with a read-config error; a failed attempt loads
\* nothing but is not rolled back: a failure before app.path is read leaves the
\* object as it was; a later failure leaves app.path appended to the search paths
\* (unless it is empty or already there) and, once read-config was reached, the
\* explicit file set to the flag value, or to the discovered file when neither flag
\* nor options named one; nothing else changes. So the object is as before exactly
\* when app.path was not read or neither of the two in fact changed anything.
C3_FailureLeavesMutations ==
    pc = "done"
        => /\ res.reads <= 1
           /\ res.err = NilErr
                => (FullyInitialized /\ viper = [AfterAttempt EXCEPT !.config = FileAfter])
           /\ res.err # NilErr
                => /\ viper.config = ""
                   /\ res.op = "provideViper" => ~res.obj
                   /\ res.op # "provideViper" => (res.obj <=> res.reads = 1)
                   /\ ~PathRead => (viper = res.before /\ res.reads = 0)
                   /\ PathRead => viper = AfterAttempt
                   /\ (viper = res.before)
                        <=> \/ ~PathRead
                            \/ /\ WithAppPath(res.before.configPaths, res.amb.path.v)
                                     = res.before.configPaths
                               /\ FileAfter = res.before.configFile

C3_Witness ==
    /\ ProvideViperDone
    /\ res.err.kind = "unable to read config file"
    /\ flagSet.config = "/missing.json"
    /\ viper.configFile = "/missing.json"
    /\ res.before.configFile = ""
    /\ viper.configPaths # res.before.configPaths

\* the values of the ConfigPath options of opts, in order
RECURSIVE OptionPaths(_)
OptionPaths(opts) ==
    IF opts = <<>> THEN <<>>
    ELSE IF Head(opts).op = "ConfigPath"
         THEN <<Head(opts).value>> \o OptionPaths(Tail(opts))
         ELSE OptionPaths(Tail(opts))

\* every path made absolute
AbsAll(paths) == [i \in 1..Len(paths) |-> absPathify(paths[i])]

\* the non-empty paths made absolute, each kept at its first occurrence
RECURSIVE FirstOccurrences(_)
FirstOccurrences(paths) ==
    IF paths = <<>> THEN <<>>
    ELSE LET n == Len(paths)
             front == FirstOccurrences(SubSeq(paths, 1, n - 1))
         IN  IF paths[n] = "" \/ InSeq(absPathify(paths[n]), front)
             THEN front
             ELSE Append(front, absPathify(paths[n]))

\* C10 as claimed: the list holds every ConfigPath value in application order,
\* and provideViper appends app.path after them, so at read-config time app.path is
\* always in the list, after every option path.
C10_PathsAppended ==
    /\ pc \in {"built", "flags"} => viper.configPaths = FirstOccurrences(OptionPaths(options))
    /\ (ProvideViperDone /\ PathRead)
        => viper.configPaths =
              Append(FirstOccurrences(OptionPaths(options)), absPathify(res.amb.path.v))

\* C10 as the code has it: the list holds every distinct non-empty ConfigPath value
\* (made absolute) in order of first occurrence, none replaced; provideViper appends
\* app.path after them unless it is empty or already in the list, so a non-empty
\* app.path is always in the list at read-config time, and is last unless an
\* option had already given it.
C10_PathsAdditive ==
    /\ pc \in {"built", "flags"} => viper.configPaths = FirstOccurrences(OptionPaths(options))
    /\ (ProvideViperDone /\ ~PathRead)
        => viper.configPaths = FirstOccurrences(OptionPaths(options))
    /\ (ProvideViperDone /\ PathRead)
        => /\ viper.configPaths =
                  FirstOccurrences(OptionPaths(options) \o <<res.amb.path.v>>)
           /\ res.amb.path.v # ""
                => \E i \in 1..Len(viper.configPaths) :
                      /\ viper.configPaths[i] = absPathify(res.amb.path.v)
                      /\ i < Len(viper.configPaths)
                            => InSeq(viper.configPaths[i], AbsAll(OptionPaths(options)))

C10_Witness ==
    /\ ProvideViperDone
    /\ res.reads = 1
    /\ options = <<ConfigPath("/etc"), ConfigPath("/app/")>>
    /\ res.amb.path.v = "/app"
    /\ viper.configPaths = <<"/etc", "/app">>

\* the index of the last option of opts of kind op (with a non-empty value, when
\* nonEmpty); 0 when there is none
LastIdx(opts, op, nonEmpty) ==
    LET I == {i \in 1..Len(opts) : opts[i].op = op /\ (nonEmpty => opts[i].value # "")}
    IN  IF I = {} THEN 0 ELSE CHOOSE i \in I : \A j \in I : j <= i

\* the value of the last option of kind op with a non-empty value, else dflt
LastNonEmpty(opts, op, dflt) ==
    IF LastIdx(opts, op, TRUE) = 0 THEN dflt ELSE opts[LastIdx(opts, op, TRUE)].value

\* the settings after opts are applied, in order, to an object with settings base
\* and no search path: per setting the last option that sets it, where an empty
\* string sets nothing, ConfigName clears the explicit file, and paths accumulate
SettingsAfter(opts, base) ==
    [ automaticEnvApplied |-> base.automaticEnvApplied \/ LastIdx(opts, "AutomaticEnv", FALSE) # 0,
      envPrefix      |-> LastNonEmpty(opts, "EnvPrefix", base.envPrefix),
      envKeyReplacer |-> IF LastIdx(opts, "EnvKeyReplacer", FALSE) = 0 THEN base.envKeyReplacer
                         ELSE [old |-> opts[LastIdx(opts, "EnvKeyReplacer", FALSE)].value,
                               new |-> opts[LastIdx(opts, "EnvKeyReplacer", FALSE)].to],
      configFile     |-> IF LastIdx(opts, "ConfigName", TRUE) > LastIdx(opts, "ConfigFile", TRUE)
                         THEN ""
                         ELSE LastNonEmpty(opts, "ConfigFile", base.configFile),
      configName     |-> LastNonEmpty(opts, "ConfigName", base.configName),
      configPaths    |-> FirstOccurrences(OptionPaths(opts)),
      configType     |-> LastNonEmpty(opts, "ConfigType", base.configType),
      config         |-> "" ]

\* the setting of v an option of kind op writes
Setting(v, op) ==
    CASE op = "EnvPrefix"  -> v.envPrefix
      [] op = "ConfigFile" -> v.configFile
      [] op = "ConfigName" -> v.configName
      [] op = "ConfigType" -> v.configType

\* the setting written by options of kind op equals the value of the last of them
\* (the last with a non-empty value, when nonEmpty)
LastWriteWins(opts, v, op, nonEmpty) ==
    LastIdx(opts, op, nonEmpty) # 0
        => Setting(v, op) = opts[LastIdx(opts, op, nonEmpty)].value

\* the key replacer equals the one the last EnvKeyReplacer option gave
LastReplacerWins(opts, v) ==
    LastIdx(opts, "EnvKeyReplacer", FALSE) # 0
        => v.envKeyReplacer = [old |-> opts[LastIdx(opts, "EnvKeyReplacer", FALSE)].value,
                               new |-> opts[LastIdx(opts, "EnvKeyReplacer", FALSE)].to]

\* C5 as claimed: after NewBundleWithConfig every setting, config file and config
\* path included, equals the value given by the last option that sets it (an
\* option with an empty value, which viper ignores, sets nothing).
C5_LastWriteWinsAll ==
    (pc = "built" /\ ctor = "NewBundleWithConfig")
        => /\ LastIdx(options, "AutomaticEnv", FALSE) # 0 => viper.automaticEnvApplied
           /\ \A op \in {"EnvPrefix", "ConfigFile", "ConfigName", "ConfigType"} :
                  LastWriteWins(options, viper, op, TRUE)
           /\ LastReplacerWins(options, viper)
           /\ LastIdx(options, "ConfigPath", TRUE) # 0
                => viper.configPaths =
                      <<absPathify(options[LastIdx(options, "ConfigPath", TRUE)].value)>>

\* C5 as the code has it: after NewBundleWithConfig, auto-env is on iff AutomaticEnv
\* was given; env prefix, config name and config type equal the last non-empty value
\* given (an empty value sets nothing); the key replacer equals the last one given;
\* the config file equals the last non-empty ConfigFile value unless a later
\* non-empty ConfigName cleared it; the search paths are not last-write-wins: they
\* hold every distinct non-empty path in order.
C5_LastNonEmptyWriteWins ==
    (pc = "built" /\ ctor = "NewBundleWithConfig")
        => viper = SettingsAfter(options,
                      [ automaticEnvApplied |-> FALSE, envPrefix |-> "",
                        envKeyReplacer |-> [old |-> "", new |-> ""], configFile |-> "",
                        configName |-> "config", configType |-> "" ])

C5_Witness ==
    /\ pc = "built" /\ ctor = "NewBundleWithConfig"
    /\ options = <<ConfigType("yaml"), ConfigType("bogus")>>
    /\ viper.configType = "bogus"

\* the settings NewBundle's own five options give
DefaultSettings ==
    [ automaticEnvApplied |-> TRUE, envPrefix |-> "ENV",
      envKeyReplacer |-> [old |-> ".", new |-> "_"], configFile |-> "",
      configName |-> "config", configType |-> "json" ]

\* C8 as claimed: NewBundle with no options gives the default settings, and any
\* caller option overrides the corresponding default.
C8_CallerOptionOverrides ==
    (pc = "built" /\ ctor = "NewBundle")
        => /\ options = <<>> => viper = SettingsAfter(<<>>, DefaultSettings)
           /\ \A op \in {"EnvPrefix", "ConfigName", "ConfigType"} :
                  /\ LastWriteWins(options, viper, op, FALSE)
                  /\ LastIdx(options, op, FALSE) = 0
                        => Setting(viper, op) = Setting(DefaultSettings, op)
           /\ LastReplacerWins(options, viper)

\* C8 as the code has it: NewBundle with no options gives auto-env on, prefix
\* "ENV", replacer "." to "_", name "config", type "json"; with options, the
\* defaults are applied first and the caller's options after them in order, so a
\* caller option with a non-empty value (or any key replacer) overrides the
\* default, while an empty prefix, name or type leaves the default in place.
C8_DefaultsThenCallerOptions ==
    (pc = "built" /\ ctor = "NewBundle")
        => /\ options = <<>>
                => /\ viper.automaticEnvApplied
                   /\ viper.envPrefix = "ENV"
                   /\ viper.envKeyReplacer = [old |-> ".", new |-> "_"]
                   /\ viper.configName = "config"
                   /\ viper.configType = "json"
           /\ viper = SettingsAfter(options, DefaultSettings)

C8_Witness ==
    /\ pc = "built" /\ ctor = "NewBundle" /\ version = "v3"
    /\ options = <<EnvPrefix(""), ConfigType("yaml")>>
    /\ viper.configType = "yaml"
    /\ viper.envPrefix = "ENV"

\* the argument list holds only plain words before position i
WordsBefore(i) == \A j \in 1..(i - 1) : args[j].kind = "word"

\* C6: provideFlagSet returns a flag set with the string flag "config" (default
\* empty) parsed from the process arguments; a help request gives a nil error,
\* any other parse error is the error of the stage.
C6_FlagSetStage ==
    pc = "flags"
        => /\ flagSet.defined
           /\ flagSet = parseArgs([config |-> "", defined |-> TRUE, positional |-> <<>>], args).flagSet
           /\ (\A i \in 1..Len(args) : args[i].kind = "word") => (flagSet.config = "" /\ flagErr = NilErr)
           /\ parseArgs(NewFlagSet, args).err.kind = "pflag: help requested" => flagErr = NilErr
           /\ parseArgs(NewFlagSet, args).err.kind # "pflag: help requested"
                => flagErr = parseArgs(NewFlagSet, args).err
           /\ \A i \in 1..Len(args) :
                WordsBefore(i)
                    => /\ args[i] \in {Long("help"), Short("h")} => flagErr = NilErr
                       /\ args[i] = Long("bogus")
                            => (flagErr.kind = "unknown flag" /\ flagErr.file = "--bogus")
                       /\ (args[i] = Long("config") /\ i = Len(args))
                            => flagErr.kind = "flag needs an argument"

C6_Witness ==
    /\ pc = "flags"
    /\ Len(args) = 3
    /\ args[2] = LongEq("config", "/etc/alt.json")
    /\ args[3] = Long("help")
    /\ flagErr = NilErr
    /\ flagSet.config = "/etc/alt.json"

=============================================================================
